---- MODULE Spec2Model ----
(***************************************************************************)
(* A model of mlx_lm/pt.py (the training driver: to_samples,               *)
(* iterate_batches, main) and of mlx_lm/models/recurrent_gemma.py          *)
(* (rnn_scan, RecurrentBlock, Griffin, Model.make_cache).                  *)
(*                                                                         *)
(* Four specifications share the module:                                   *)
(*   Spec        the training run of main(args)                            *)
(*   SpecSamples to_samples and the input/target split of loss_fn          *)
(*   SpecScan    rnn_scan, called on a whole sequence and chunk by chunk   *)
(*   SpecCache   Griffin.__init__, Model.make_cache and forward calls      *)
(* Tensor values are exact integers; a learning rate and a mean are exact  *)
(* fractions <<numerator, denominator>>.                                   *)
(***************************************************************************)
EXTENDS Integers, Sequences, FiniteSets, TLC

VARIABLES
    \* ---- main(args) ----
    args,       \* the parsed command line
    pc,         \* position of main: the line it executes next
    it,         \* the loop variable of line 92 (completed iterations)
    gen,        \* the generator iterate_batches: [started, nsamples, s]
    lr,         \* optimizer.learning_rate, a fraction
    losses,     \* the list losses of line 90
    lossLog,    \* history: the loss of every step, in step order
    reports,    \* the "Train loss" lines printed, in order
    evals,      \* the steps after which "Val loss" was printed
    saved,      \* the paths given to mx.save_safetensors, in order
    tested,     \* "Test loss" was printed
    err,        \* the exception that ended main and the line that raised it
    \* ---- to_samples / loss_fn ----
    ds,         \* [context_size, dataset]
    samples,    \* the outcome of to_samples, Unset before the call
    split,      \* the (x, y) of loss_fn for one sample, Unset before the call
    \* ---- rnn_scan ----
    sc,         \* [x, a, h0]: the whole input of the scan
    whole,      \* outcome of the single call on the whole sequence
    pos,        \* number of time steps scanned chunk by chunk
    chunkY,     \* outputs of the chunked calls, concatenated
    carry,      \* the state returned by the last chunked call
    lastMode,   \* the branch of rnn_scan the last chunked call took
    \* ---- Griffin / Model ----
    config,     \* ModelArgs
    layers,     \* Griffin.layers, Unset before __init__
    cache,      \* the list returned by make_cache, Unset before the call
    handed,     \* what Griffin.__call__ handed to each layer in its last call
    hist,       \* history: the inputs the blocks have seen since make_cache
    fwd         \* forward calls made, and the exception the last one raised

trainVars  == <<args, pc, it, gen, lr, losses, lossLog, reports, evals, saved, tested, err>>
sampleVars == <<ds, samples, split>>
scanVars   == <<sc, whole, pos, chunkY, carry, lastMode>>
cacheVars  == <<config, layers, cache, handed, hist, fwd>>
vars       == <<trainVars, sampleVars, scanVars, cacheVars>>
notTrain   == <<sampleVars, scanVars, cacheVars>>

None == "None"

\* ------------------------------------------------------------------ bounds
MaxIters   == 4    \* num_iters in 0..MaxIters
MaxWarmup  == 2    \* lr_warmup in 0..MaxWarmup
MaxReport  == 2    \* steps_per_report in 0..MaxReport
MaxEval    == 2    \* steps_per_eval in 0..MaxEval
MaxSave    == 2    \* save_every in -1..MaxSave
MaxBatch   == 2    \* batch_size in 1..MaxBatch

MaxTokens  == 5    \* to_samples: data sets of 0..MaxTokens tokens
MaxContext == 2    \* to_samples: context_size in 0..MaxContext
MaxLen     == 3    \* rnn_scan: sequences of 1..MaxLen time steps

MaxLayers  == 3    \* Griffin: num_hidden_layers in 0..MaxLayers
MaxCalls   == 2    \* Griffin: forward calls per run
MaxCallLen == 2    \* Griffin: tokens per forward call in 1..MaxCallLen

\* recurrent_gemma.py:177  conv1d_temporal_width, which Griffin leaves at
\* its default.
ConvWidth == 4

\* The lists block_types of the configurations, and the window sizes.
BlockPatterns ==
    {<<"recurrent">>, <<"attention">>, <<"recurrent", "recurrent", "attention">>,
     <<"recurrent", "other">>, <<"attention", "recurrent">>}
WindowSizes == {1, 3}

\* Token ids of the data sets given to to_samples.
TokenIds == {7, 8}
\* Values of the scan's inputs x, of its gates a, and of a given state h0.
XVals == {1, 2}
AVals == {0, 2}
HVals == {0, 3}

\* Data set sizes (tokens) of the training runs: none, too few for a
\* validation sample, enough for both.
DatasetSizes == {0, 5, 40}
\* The losses a step may return.
LossVals == {1, 2}
\* The learning rate, in units of 1e-4; context size of the training runs.
LearningRate == 3
TrainContext == 1

\* ------------------------------------------------------------ Python helpers
\* The outcome of an expression: a value, or the exception it raises.
Ok(v)    == [ok |-> TRUE, val |-> v]
Raise(e) == [ok |-> FALSE, exc |-> e]
\* No call has been made yet.
Unset    == [ok |-> FALSE, exc |-> None]

Min(a, b) == IF a <= b THEN a ELSE b

\* Python's a % b for b # 0: the result has the sign of b.
PyMod(a, b) == IF b > 0 THEN a % b ELSE -((-a) % (-b))

\* Python's a // b for a >= 0, b > 0.
PyFloorDiv(a, b) == a \div b

RECURSIVE SumSeq(_)
SumSeq(s) == IF s = <<>> THEN 0 ELSE Head(s) + SumSeq(Tail(s))

\* Decimal digits of n >= 0, most significant first.
RECURSIVE Digits(_)
Digits(n) == IF n < 10 THEN <<n>> ELSE Append(Digits(n \div 10), n % 10)

\* Format specifier 06d: pad with zeros on the left to at least 6 characters.
RECURSIVE ZeroPad(_, _)
ZeroPad(d, width) == IF Len(d) >= width THEN d ELSE ZeroPad(<<0>> \o d, width)

\* pt.py:117  Path(save_path) / f"checkpoint_{it+1:06d}.safetensors"
CheckpointName(n) == <<"checkpoint_", ZeroPad(Digits(n), 6), ".safetensors">>

\* pt.py:123
FinalName == <<"final", <<>>, ".safetensors">>

\* pt.py:17-21  number of rows to_samples makes of n tokens, or the error of
\* reshape(0, -1): the free dimension of an empty array cannot be inferred.
NumSamples(context_size, n) ==
    LET window_size == context_size + 1
        rows == PyFloorDiv(n, window_size)
    IN  IF rows = 0 THEN Raise("ValueError") ELSE Ok(rows)

\* pt.py:72-78  eval_fn(dataset) on n tokens: the exception it raises, or None.
EvalFnError(context_size, n) ==
    LET r == NumSamples(context_size, n)
    IN  IF ~r.ok THEN r.exc
        ELSE IF r.val * (context_size + 1) - r.val = 0 THEN "ZeroDivisionError"
        ELSE None

\* pt.py:93  min(1, it / lr_warmup) * learning_rate
LearningRateAt(i, lr_warmup, learning_rate) ==
    IF lr_warmup = 0 THEN Raise("ZeroDivisionError")
    ELSE IF i < lr_warmup THEN Ok(<<i * learning_rate, lr_warmup>>)
    ELSE Ok(<<learning_rate, 1>>)

\* ------------------------------------------------------------------- main
ArgSpace ==
    [num_iters        : 0 .. MaxIters,
     lr_warmup        : 0 .. MaxWarmup,
     steps_per_report : 0 .. MaxReport,
     steps_per_eval   : 0 .. MaxEval,
     save_every       : -1 .. MaxSave,
     eval_test        : BOOLEAN,
     batch_size       : 1 .. MaxBatch,
     context_size     : {TrainContext},
     learning_rate    : {LearningRate},
     ntokens          : DatasetSizes]

NoError == [exc |-> None, line |-> 0]

\* pt.py:38-91  the state when the loop of line 92 is first entered; line 68
\* constructs the optimizer with learning_rate.
TrainInit ==
    /\ args \in ArgSpace
    /\ pc = "loop"
    /\ it = 0
    /\ gen = [started |-> FALSE, nsamples |-> 0, s |-> 0]
    /\ lr = <<args.learning_rate, 1>>
    /\ losses = <<>>
    /\ lossLog = <<>>
    /\ reports = <<>>
    /\ evals = <<>>
    /\ saved = <<>>
    /\ tested = FALSE
    /\ err = NoError

\* An uncaught exception ends main.
Crash(e, line) ==
    /\ pc' = "crashed"
    /\ err' = [exc |-> e, line |-> line]

\* pt.py:24-35  next(train_iterator): the generator runs to its next yield.
GenNext ==
    IF ~gen.started
    THEN LET r == NumSamples(args.context_size, args.ntokens)
         IN  IF ~r.ok
             THEN /\ Crash(r.exc, 92)
                  /\ gen' = gen
             ELSE /\ gen' = [started |-> TRUE, nsamples |-> r.val, s |-> 0]
                  /\ pc' = "lr"
                  /\ err' = err
    ELSE LET s1 == gen.s + args.batch_size
         IN  /\ gen' = [gen EXCEPT !.s = IF s1 >= gen.nsamples THEN 0 ELSE s1]
             /\ pc' = "lr"
             /\ err' = err

\* pt.py:92  for it, inputs in zip(range(num_iters), train_iterator)
LoopNext ==
    /\ pc = "loop"
    /\ IF it < args.num_iters
       THEN GenNext
       ELSE /\ pc' = "final"
            /\ UNCHANGED <<gen, err>>
    /\ UNCHANGED <<args, it, lr, losses, lossLog, reports, evals, saved, tested>>
    /\ UNCHANGED notTrain

\* pt.py:93
SetLR ==
    /\ pc = "lr"
    /\ LET v == LearningRateAt(it, args.lr_warmup, args.learning_rate)
       IN  IF ~v.ok
           THEN /\ Crash(v.exc, 93)
                /\ lr' = lr
           ELSE /\ lr' = v.val
                /\ pc' = "step"
                /\ err' = err
    /\ UNCHANGED <<args, it, gen, losses, lossLog, reports, evals, saved, tested>>
    /\ UNCHANGED notTrain

\* pt.py:94-96
Step ==
    /\ pc = "step"
    /\ \E loss \in LossVals :
          /\ losses' = Append(losses, loss)
          /\ lossLog' = Append(lossLog, loss)
    /\ pc' = "report"
    /\ UNCHANGED <<args, it, gen, lr, reports, evals, saved, tested, err>>
    /\ UNCHANGED notTrain

\* Report with line 104 (losses = []) left out.
ReportKeepsLosses ==
    /\ pc = "report"
    /\ args.steps_per_report # 0
    /\ IF PyMod(it + 1, args.steps_per_report) = 0
       THEN reports' = Append(reports,
                    [n |-> it + 1, items |-> losses,
                     train_loss |-> <<SumSeq(losses), Len(losses)>>])
       ELSE reports' = reports
    /\ pc' = "eval"
    /\ UNCHANGED <<args, it, gen, lr, losses, lossLog, evals, saved, tested, err>>
    /\ UNCHANGED notTrain

\* pt.py:97-105
Report ==
    /\ pc = "report"
    /\ IF args.steps_per_report = 0
       THEN /\ Crash("ZeroDivisionError", 97)
            /\ UNCHANGED <<losses, reports>>
       ELSE IF PyMod(it + 1, args.steps_per_report) = 0
       THEN /\ reports' = Append(reports,
                    [n |-> it + 1, items |-> losses,
                     train_loss |-> <<SumSeq(losses), Len(losses)>>])
            /\ losses' = <<>>
            /\ pc' = "eval"
            /\ err' = err
       ELSE /\ pc' = "eval"
            /\ UNCHANGED <<losses, reports, err>>
    /\ UNCHANGED <<args, it, gen, lr, lossLog, evals, saved, tested>>
    /\ UNCHANGED notTrain

\* pt.py:106-115
Eval ==
    /\ pc = "eval"
    /\ IF args.steps_per_eval = 0
       THEN /\ Crash("ZeroDivisionError", 106)
            /\ evals' = evals
       ELSE IF PyMod(it + 1, args.steps_per_eval) = 0
       THEN LET e == EvalFnError(args.context_size, PyFloorDiv(args.ntokens, 10))
            IN  IF e # None
                THEN /\ Crash(e, 107)
                     /\ evals' = evals
                ELSE /\ evals' = Append(evals, it + 1)
                     /\ pc' = "save"
                     /\ err' = err
       ELSE /\ pc' = "save"
            /\ UNCHANGED <<evals, err>>
    /\ UNCHANGED <<args, it, gen, lr, losses, lossLog, reports, saved, tested>>
    /\ UNCHANGED notTrain

\* SaveDue testing the loop variable it instead of it + 1.
SaveDueOffByOne(save_every, n) == save_every > 0 /\ PyMod(n - 1, save_every) = 0

\* pt.py:116  the condition of the periodic checkpoint after step n
SaveDue(save_every, n) == save_every > 0 /\ PyMod(n, save_every) = 0

\* pt.py:116-121, and the end of the loop body
Save ==
    /\ pc = "save"
    /\ saved' = IF SaveDue(args.save_every, it + 1)
                THEN Append(saved, CheckpointName(it + 1))
                ELSE saved
    /\ it' = it + 1
    /\ pc' = "loop"
    /\ UNCHANGED <<args, gen, lr, losses, lossLog, reports, evals, tested, err>>
    /\ UNCHANGED notTrain

\* pt.py:123-127
Final ==
    /\ pc = "final"
    /\ saved' = Append(saved, FinalName)
    /\ pc' = "test"
    /\ UNCHANGED <<args, it, gen, lr, losses, lossLog, reports, evals, tested, err>>
    /\ UNCHANGED notTrain

\* pt.py:129-132
TestEval ==
    /\ pc = "test"
    /\ IF args.eval_test
       THEN LET e == EvalFnError(args.context_size, PyFloorDiv(args.ntokens, 10))
            IN  IF e # None
                THEN /\ Crash(e, 130)
                     /\ tested' = tested
                ELSE /\ tested' = TRUE
                     /\ pc' = "done"
                     /\ err' = err
       ELSE /\ pc' = "done"
            /\ UNCHANGED <<tested, err>>
    /\ UNCHANGED <<args, it, gen, lr, losses, lossLog, reports, evals, saved>>
    /\ UNCHANGED notTrain


\* ------------------------------------------------- to_samples and loss_fn
notSamples == <<trainVars, scanVars, cacheVars>>

\* All sequences over S of length lo..hi.
SeqsOf(S, lo, hi) == UNION {[1 .. n -> S] : n \in lo .. hi}

\* array.reshape(rows, -1) of a flat array, row-major. The free dimension
\* is the size divided by the product of the given ones, which cannot be
\* inferred when that product is 0.
Reshape(flat, rows) ==
    IF rows = 0 THEN Raise("ValueError")
    ELSE LET cols == Len(flat) \div rows
         IN  Ok([j \in 1 .. rows |-> [k \in 1 .. cols |-> flat[(j - 1) * cols + k]]])

\* to_samples keeping the last samples * window_size tokens, not the first.
ToSamplesKeepsTail(context_size, dataset) ==
    LET window_size == context_size + 1
        rows == PyFloorDiv(Len(dataset), window_size)
        kept == SubSeq(dataset, Len(dataset) - rows * window_size + 1, Len(dataset))
    IN  Reshape(kept, rows)

\* pt.py:17-21
ToSamples(context_size, dataset) ==
    LET window_size == context_size + 1
        rows == PyFloorDiv(Len(dataset), window_size)
        kept == SubSeq(dataset, 1, rows * window_size)
    IN  Reshape(kept, rows)

\* pt.py:64  x, y = inputs[..., :-1], inputs[..., 1:]  for one row of inputs
LossFnSplit(row) ==
    [x |-> SubSeq(row, 1, Len(row) - 1), y |-> SubSeq(row, 2, Len(row))]

SamplesInit ==
    /\ ds \in [context_size : 0 .. MaxContext, dataset : SeqsOf(TokenIds, 0, MaxTokens)]
    /\ samples = Unset
    /\ split = Unset

\* pt.py:25, 73  inputs = to_samples(context_size, dataset)
CallToSamples ==
    /\ samples = Unset
    /\ samples' = ToSamples(ds.context_size, ds.dataset)
    /\ UNCHANGED <<ds, split>>
    /\ UNCHANGED notSamples

\* pt.py:63-66  loss_fn on row j of the samples
CallLossFn ==
    /\ samples.ok
    /\ \E j \in 1 .. Len(samples.val) :
          split' = [ok |-> TRUE, j |-> j, val |-> LossFnSplit(samples.val[j])]
    /\ UNCHANGED <<ds, samples>>
    /\ UNCHANGED notSamples

\* ---------------------------------------------------------------- rnn_scan
notScan == <<trainVars, sampleVars, cacheVars>>

\* A state h0 or h_t of shape (B, D) is <<v>>; None is <<>>. x, a and y are
\* sequences over time. Every operation of rnn_scan is elementwise over the
\* batch and channel axes, so one (batch, channel) coordinate is modelled.

\* recurrent_gemma.py:54-61  sampling mode (x.shape[1] == 1)
ScanSampling(x, a, h0) ==
    IF h0 = <<>>
    THEN [y |-> x, h |-> <<x[1]>>, mode |-> "sampling"]
    ELSE LET y == <<a[1] * h0[1] + x[1]>>
         IN  [y |-> y, h |-> <<y[Len(y)]>>, mode |-> "sampling"]

\* recurrent_gemma.py:72-74  the loop from time step t on
RECURSIVE ScanLoop(_, _, _, _, _)
ScanLoop(x, a, t, h_t, y) ==
    IF t > Len(x) THEN [y |-> y, h |-> <<h_t>>, mode |-> "linear"]
    ELSE LET h == a[t] * h_t + x[t]
         IN  ScanLoop(x, a, t + 1, h, Append(y, h))

\* recurrent_gemma.py:63-76  linear mode
ScanLinear(x, a, h0) ==
    ScanLoop(x, a, 1, IF h0 # <<>> THEN h0[1] ELSE 0, <<>>)

\* rnn_scan whose linear mode always starts from the zero state.
RnnScanDropsState(x, a, h0) ==
    IF Len(x) = 1 THEN ScanSampling(x, a, h0) ELSE ScanLinear(x, a, <<>>)

\* recurrent_gemma.py:49-76
RnnScan(x, a, h0) ==
    IF Len(x) = 1 THEN ScanSampling(x, a, h0) ELSE ScanLinear(x, a, h0)

ScanInit ==
    /\ \E L \in 1 .. MaxLen :
          sc \in [x : [1 .. L -> XVals], a : [1 .. L -> AVals],
                  h0 : {<<>>} \cup {<<v>> : v \in HVals}]
    /\ whole = Unset
    /\ pos = 0
    /\ chunkY = <<>>
    /\ carry = <<>>
    /\ lastMode = None

\* One call of rnn_scan on the whole sequence.
ScanWhole ==
    /\ whole = Unset
    /\ whole' = Ok(RnnScan(sc.x, sc.a, sc.h0))
    /\ UNCHANGED <<sc, pos, chunkY, carry, lastMode>>
    /\ UNCHANGED notScan

\* One call of rnn_scan on the next k time steps, with the state the
\* previous call returned as h0 (recurrent_gemma.py:161-165, h0=cache).
ScanChunk ==
    /\ pos < Len(sc.x)
    /\ \E k \in 1 .. Len(sc.x) - pos :
          LET r == RnnScan(SubSeq(sc.x, pos + 1, pos + k),
                           SubSeq(sc.a, pos + 1, pos + k),
                           IF pos = 0 THEN sc.h0 ELSE carry)
          IN  /\ chunkY' = chunkY \o r.y
              /\ carry' = r.h
              /\ lastMode' = r.mode
              /\ pos' = pos + k
    /\ UNCHANGED <<sc, whole>>
    /\ UNCHANGED notScan


\* ------------------------------------------------------ Griffin and Model
notCache == <<trainVars, sampleVars, scanVars>>

\* cache.py is imported (recurrent_gemma.py:11). A MambaCache is indexed as
\* RecurrentBlock indexes the list [None, None] of line 210; a slot is <<>>
\* for None and <<v>> for a value.
MambaCache == [kind |-> "MambaCache", slots |-> << <<>>, <<>> >>]

RotatingKVCache(max_size) ==
    [kind |-> "RotatingKVCache", max_size |-> max_size, offset |-> 0, held |-> 0]

\* RotatingKVCache.update_and_fetch on n new positions: a rolling buffer
\* that holds at most max_size positions.
RotatingUpdate(entry, n) ==
    [entry EXCEPT !.offset = @ + n, !.held = Min(entry.offset + n, entry.max_size)]

\* recurrent_gemma.py:382  block_types[i % len(block_types)], i from 0
BlockTypeOf(block_types, i) == block_types[(i % Len(block_types)) + 1]

\* recurrent_gemma.py:321-334  the temporal block ResidualBlock builds
ResidualBlock(temporal_block_type, attention_window_size) ==
    [temporal_block_type |-> temporal_block_type,
     temporal_block |-> IF temporal_block_type = "recurrent"
                        THEN "RecurrentBlock" ELSE "LocalAttentionBlock",
     window_size |-> attention_window_size]

\* make_cache giving a rolling buffer to the layers typed "attention" only.
CacheEntryForAttentionOnly(layer, attention_window_size) ==
    IF layer.temporal_block_type = "attention"
    THEN RotatingKVCache(attention_window_size)
    ELSE MambaCache

\* recurrent_gemma.py:454-457  the entry make_cache appends for a layer
CacheEntryFor(layer, attention_window_size) ==
    IF layer.temporal_block_type = "recurrent"
    THEN MambaCache
    ELSE RotatingKVCache(attention_window_size)

Zeros(n) == [k \in 1 .. n |-> 0]
LastN(s, n) == SubSeq(s, Len(s) - n + 1, Len(s))

RECURSIVE SumWindow(_, _, _)
SumWindow(xp, t, k) == IF k = 0 THEN 0 ELSE xp[t + k - 1] + SumWindow(xp, t, k - 1)

\* recurrent_gemma.py:89-101  Conv1d.__call__ with unit weights and no
\* bias: [y, state], state being x[:, -K + 1:, :] of the extended input.
Conv1dCall(x, state) ==
    LET xp == IF state # <<>> THEN state[1] \o x ELSE Zeros(ConvWidth - 1) \o x
    IN  [y |-> [t \in 1 .. Len(x) |-> SumWindow(xp, t, ConvWidth)],
         state |-> <<LastN(xp, ConvWidth - 1)>>]

\* recurrent_gemma.py:142-149  the gate a of one position, a function of
\* the input at that position, with values at the ends of its range [0, 1].
GateA(v) == v % 2

\* recurrent_gemma.py:156-159  sqrt(1 - a^2) for a in {0, 1}, and 1.0 at
\* the first position when there is no state.
Multiplier(a, t, state) == IF state = <<>> /\ t = 1 THEN 1 ELSE 1 - a

\* recurrent_gemma.py:129-167  RGLRU.__call__ with an open input gate
RGLRUCall(x, state) ==
    LET a == [t \in 1 .. Len(x) |-> GateA(x[t])]
        normalized_x == [t \in 1 .. Len(x) |-> x[t] * Multiplier(a[t], t, state)]
    IN  RnnScan(normalized_x, a, state)

\* A RecurrentBlock that keeps the hidden state only: the convolution runs
\* without a cache and slot 0 is left alone.
RecurrentBlockOneSlot(x, slots) ==
    LET conv == Conv1dCall(x, <<>>)
        lru  == RGLRUCall(conv.y, slots[2])
    IN  <<slots[1], lru.h>>

\* recurrent_gemma.py:209-212  the slots of the cache entry after the call
\* (cache[0] is slots[1], cache[1] is slots[2])
RecurrentBlockCall(x, slots) ==
    LET conv == Conv1dCall(x, slots[1])
        lru  == RGLRUCall(conv.y, slots[2])
    IN  <<conv.state, lru.h>>

\* recurrent_gemma.py:352  block(x, cache=entry): the entry after the call
BlockCall(layer, x, entry) ==
    IF layer.temporal_block = "RecurrentBlock"
    THEN [entry EXCEPT !.slots = RecurrentBlockCall(x, entry.slots)]
    ELSE RotatingUpdate(entry, Len(x))

CacheInit ==
    /\ config \in [num_hidden_layers : 0 .. MaxLayers,
                   block_types : BlockPatterns,
                   attention_window_size : WindowSizes]
    /\ layers = Unset
    /\ cache = Unset
    /\ handed = <<>>
    /\ hist = <<>>
    /\ fwd = [calls |-> 0, exc |-> None]

\* recurrent_gemma.py:364-387  Griffin.__init__
GriffinInit ==
    /\ layers = Unset
    /\ layers' = Ok([n \in 1 .. config.num_hidden_layers |->
                      ResidualBlock(BlockTypeOf(config.block_types, n - 1),
                                    config.attention_window_size)])
    /\ UNCHANGED <<config, cache, handed, hist, fwd>>
    /\ UNCHANGED notCache

\* recurrent_gemma.py:451-458  Model.make_cache
MakeCache ==
    /\ layers.ok
    /\ cache = Unset
    /\ cache' = Ok([n \in 1 .. Len(layers.val) |->
                     CacheEntryFor(layers.val[n], config.attention_window_size)])
    /\ hist' = <<>>
    /\ UNCHANGED <<config, layers, handed, fwd>>
    /\ UNCHANGED notCache

\* recurrent_gemma.py:402-407  mask_cache is bound in the loop of line 402
\* only when a layer is not recurrent, and read when no mask is given.
MaskCacheUnbound(mask_given) ==
    /\ ~mask_given
    /\ \A n \in 1 .. Len(layers.val) : layers.val[n].temporal_block_type = "recurrent"

\* recurrent_gemma.py:389-412  Griffin.__call__ without a cache: every
\* layer is handed None and keeps no state.
ForwardNoCache ==
    /\ layers.ok
    /\ fwd.calls < MaxCalls
    /\ \E mask_given \in BOOLEAN :
          IF MaskCacheUnbound(mask_given)
          THEN /\ fwd' = [calls |-> fwd.calls + 1, exc |-> "UnboundLocalError"]
               /\ handed' = <<>>
          ELSE /\ fwd' = [calls |-> fwd.calls + 1, exc |-> None]
               /\ handed' = [n \in 1 .. Len(layers.val) |->
                              [block |-> layers.val[n].temporal_block, cache |-> None]]
    /\ UNCHANGED <<config, layers, cache, hist>>
    /\ UNCHANGED notCache

\* recurrent_gemma.py:389-412  Griffin.__call__ with the list of make_cache.
\* The arithmetic between the temporal blocks (norms, linear layers, MLP,
\* residual sums) belongs to the tensor library: x stands for the inputs
\* each temporal block receives in this call, L = Len(x) positions.
Forward ==
    /\ layers.ok
    /\ cache.ok
    /\ fwd.calls < MaxCalls
    /\ \E mask_given \in BOOLEAN, x \in SeqsOf(XVals, 1, MaxCallLen) :
          IF MaskCacheUnbound(mask_given)
          THEN /\ fwd' = [calls |-> fwd.calls + 1, exc |-> "UnboundLocalError"]
               /\ handed' = <<>>
               /\ UNCHANGED <<cache, hist>>
          ELSE /\ fwd' = [calls |-> fwd.calls + 1, exc |-> None]
               /\ handed' = [n \in 1 .. Len(layers.val) |->
                              [block |-> layers.val[n].temporal_block,
                               cache |-> cache.val[n].kind]]
               /\ cache' = Ok([n \in 1 .. Len(layers.val) |->
                                BlockCall(layers.val[n], x, cache.val[n])])
               /\ hist' = hist \o x
    /\ UNCHANGED <<config, layers>>
    /\ UNCHANGED notCache

\* ------------------------------------------------------------ specifications
SamplesIdle ==
    /\ ds = [context_size |-> 0, dataset |-> <<>>]
    /\ samples = Unset
    /\ split = Unset

ScanIdle ==
    /\ sc = [x |-> <<>>, a |-> <<>>, h0 |-> <<>>]
    /\ whole = Unset
    /\ pos = 0
    /\ chunkY = <<>>
    /\ carry = <<>>
    /\ lastMode = None

CacheIdle ==
    /\ config = [num_hidden_layers |-> 0]
    /\ layers = Unset
    /\ cache = Unset
    /\ handed = <<>>
    /\ hist = <<>>
    /\ fwd = [calls |-> 0, exc |-> None]

Init == TrainInit /\ SamplesIdle /\ ScanIdle /\ CacheIdle

Next == LoopNext \/ SetLR \/ Step \/ Report \/ Eval \/ Save \/ Final \/ TestEval

Spec == Init /\ [][Next]_vars

TrainIdle ==
    /\ args = [num_iters |-> 0]
    /\ pc = "idle"
    /\ it = 0
    /\ gen = [started |-> FALSE, nsamples |-> 0, s |-> 0]
    /\ lr = <<0, 1>>
    /\ losses = <<>>
    /\ lossLog = <<>>
    /\ reports = <<>>
    /\ evals = <<>>
    /\ saved = <<>>
    /\ tested = FALSE
    /\ err = NoError

InitSamples == SamplesInit /\ TrainIdle /\ ScanIdle /\ CacheIdle
NextSamples == CallToSamples \/ CallLossFn
SpecSamples == InitSamples /\ [][NextSamples]_vars

InitScan == ScanInit /\ TrainIdle /\ SamplesIdle /\ CacheIdle
NextScan == ScanWhole \/ ScanChunk
SpecScan == InitScan /\ [][NextScan]_vars

InitCache == CacheInit /\ TrainIdle /\ SamplesIdle /\ ScanIdle
NextCache == GriffinInit \/ MakeCache \/ ForwardNoCache \/ Forward
SpecCache == InitCache /\ [][NextCache]_vars

\* -------------------------------------------------------------------
\* Claims about the training run (specification Spec)
\* -------------------------------------------------------------------

\* The value of a string of decimal digits.
RECURSIVE DigitsValue(_)
DigitsValue(d) ==
    IF d = <<>> THEN 0 ELSE 10 * DigitsValue(SubSeq(d, 1, Len(d) - 1)) + d[Len(d)]

IsPeriodic(path) == path[1] = "checkpoint_"
PeriodicSaved == SelectSeq(saved, IsPeriodic)
IsFinal(path) == path = FinalName
FinalWrites == Len(SelectSeq(saved, IsFinal))

\* C2: after `it` completed steps the periodic checkpoints written are
\* exactly those of the steps n in 1..it with save_every > 0 and
\* n mod save_every = 0, in step order: none when save_every <= 0, and
\* it div save_every of them otherwise (num_iters div save_every when the
\* run is done); the k-th is named checkpoint_<k * save_every>, and no two
\* writes go to the same path.
C2_PeriodicCheckpoints ==
    LET P == PeriodicSaved
        e == args.save_every
    IN  /\ Len(P) = IF e > 0 THEN it \div e ELSE 0
        /\ \A k \in 1 .. Len(P) :
              /\ DigitsValue(P[k][2]) = k * e
              /\ Len(P[k][2]) >= 6
              /\ k * e <= it
        /\ \A j, k \in 1 .. Len(saved) : j # k => saved[j] # saved[k]
        /\ pc = "done" => it = args.num_iters

C2_Witness ==
    /\ pc = "done"
    /\ args.save_every = 2
    /\ args.num_iters >= 3
    /\ Len(PeriodicSaved) = args.num_iters \div 2
    /\ Len(PeriodicSaved) < args.num_iters

\* C3: a run over a data set with at least one sample ends only after
\* exactly num_iters optimizer steps and one write of final.safetensors,
\* which is the last write; the test set is evaluated only with eval_test
\* set and after that write.
C3_RunCompletesInOrder ==
    args.ntokens >= args.context_size + 1 =>
        /\ pc \in {"done", "crashed"} =>
              /\ Len(lossLog) = args.num_iters
              /\ FinalWrites = 1
              /\ saved[Len(saved)] = FinalName
        /\ tested => (args.eval_test /\ FinalWrites = 1)

\* Line 93 has been executed for the current step.
RateSet == pc \in {"step", "report", "eval", "save"}

\* C4: for every lr_warmup >= 0 line 93 sets, before step it, the rate
\* learning_rate * min(1, it / lr_warmup): it / lr_warmup of learning_rate
\* while it < lr_warmup, and learning_rate from it >= lr_warmup on; the
\* rate lies between 0 and learning_rate.
C4_LinearWarmup ==
    args.lr_warmup >= 0 =>
        /\ err.line # 93
        /\ RateSet =>
              /\ it >= args.lr_warmup => lr[1] = args.learning_rate * lr[2]
              /\ it < args.lr_warmup =>
                    lr[1] * args.lr_warmup = it * args.learning_rate * lr[2]
              /\ 0 <= lr[1] /\ lr[1] <= args.learning_rate * lr[2]

\* The number of steps whose report section (lines 97-105) has run.
ReportSectionsRun == IF pc = "report" THEN Len(lossLog) - 1 ELSE Len(lossLog)

\* C5: with steps_per_report > 0 a report follows step n exactly when
\* n mod steps_per_report = 0; the k-th report averages exactly the losses
\* of the steps (k-1)*steps_per_report+1 .. k*steps_per_report, never an
\* empty list; and after the report section of step n the list losses
\* holds the n mod steps_per_report losses since the last report.
C5_LossReporting ==
    LET r == args.steps_per_report
        n == ReportSectionsRun
    IN  r > 0 =>
          /\ Len(reports) = n \div r
          /\ \A k \in 1 .. Len(reports) :
                /\ reports[k].n = k * r
                /\ reports[k].items = SubSeq(lossLog, (k - 1) * r + 1, k * r)
                /\ Len(reports[k].items) = r
                /\ reports[k].train_loss = <<SumSeq(reports[k].items), r>>
          /\ pc # "report" =>
                /\ Len(losses) = n % r
                /\ losses = SubSeq(lossLog, n - (n % r) + 1, n)
          /\ pc = "report" =>
                losses = SubSeq(lossLog, n - (n % r) + 1, n + 1)

C5_Witness ==
    /\ args.steps_per_report = 2
    /\ Len(reports) = 2
    /\ reports[1].items # reports[2].items
    /\ Len(losses) = 0
    /\ pc = "done"

\* -------------------------------------------------------------------
\* Claims about to_samples and loss_fn (specification SpecSamples)
\* -------------------------------------------------------------------
WindowSize == ds.context_size + 1
SamplesCalled == samples # Unset

\* What C7 says of the samples and of the split of one of them.
WindowsOfStream ==
    LET w == WindowSize
        n == Len(ds.dataset)
    IN  /\ samples.ok
        /\ Len(samples.val) = n \div w
        /\ \A j \in 1 .. Len(samples.val) :
              samples.val[j] = SubSeq(ds.dataset, (j - 1) * w + 1, j * w)
        /\ Len(samples.val) * w = n - (n % w)
        /\ split.ok =>
              LET base == (split.j - 1) * w
              IN  /\ Len(split.val.x) = ds.context_size
                  /\ Len(split.val.y) = ds.context_size
                  /\ \A k \in 1 .. ds.context_size :
                        /\ split.val.x[k] = ds.dataset[base + k]
                        /\ split.val.y[k] = ds.dataset[base + k + 1]

\* C7 as stated: for every data set of n tokens and every context_size
\* c >= 0, to_samples returns exactly n div (c+1) samples, sample j being
\* the tokens [j*(c+1), (j+1)*(c+1)) in order, the last n mod (c+1) tokens
\* dropped; loss_fn takes the first c tokens of a sample as inputs and the
\* last c as targets, target k being the token after input k.
C7_EveryDataset == SamplesCalled => WindowsOfStream

\* C7 amended: the same, for every data set that holds at least one window
\* (n >= c+1).
C7_DatasetWithOneWindow ==
    (SamplesCalled /\ Len(ds.dataset) >= WindowSize) => WindowsOfStream

C7_Witness ==
    /\ ds.context_size = 2
    /\ Len(ds.dataset) = 5
    /\ samples.ok
    /\ split.ok
    /\ split.val.x # split.val.y

\* -------------------------------------------------------------------
\* Claims about rnn_scan (specification SpecScan)
\* -------------------------------------------------------------------

\* The recurrence h_t = a_t * h_(t-1) + x_t with h_0 = h0 (0 for None).
RECURSIVE Hidden(_)
Hidden(t) ==
    IF t = 0 THEN (IF sc.h0 = <<>> THEN 0 ELSE sc.h0[1])
    ELSE sc.a[t] * Hidden(t - 1) + sc.x[t]

\* C8: in both modes rnn_scan returns y_t = a_t * h_(t-1) + x_t with
\* h_(-1) = h0 (zero for None) and the last output as state; so the calls
\* on consecutive chunks of a sequence, each given the state the previous
\* one returned, produce the outputs and the final state of one call on
\* the whole sequence.
C8_ScanIsRecurrence ==
    /\ whole.ok =>
          /\ whole.val.y = [t \in 1 .. Len(sc.x) |-> Hidden(t)]
          /\ whole.val.h = <<whole.val.y[Len(sc.x)]>>
    /\ pos > 0 =>
          /\ chunkY = [t \in 1 .. pos |-> Hidden(t)]
          /\ carry = <<chunkY[pos]>>
    /\ (whole.ok /\ pos = Len(sc.x)) =>
          /\ chunkY = whole.val.y
          /\ carry = whole.val.h

C8_Witness ==
    /\ Len(sc.x) = 3
    /\ sc.h0 = <<3>>
    /\ sc.a[1] = 2
    /\ whole.ok
    /\ pos = 3
    /\ lastMode = "sampling"

\* -------------------------------------------------------------------
\* Claims about the inference cache (specification SpecCache)
\* -------------------------------------------------------------------

\* C1: make_cache returns one entry per layer, in layer order: entry i is a
\* MambaCache exactly when block_types[i mod len(block_types)] is
\* "recurrent", and otherwise a RotatingKVCache with max_size =
\* attention_window_size; and Griffin.__call__ hands a MambaCache to every
\* RecurrentBlock and a RotatingKVCache to every LocalAttentionBlock.
C1_CacheMatchesLayers ==
    cache.ok =>
        /\ Len(cache.val) = config.num_hidden_layers
        /\ \A i \in 0 .. config.num_hidden_layers - 1 :
              LET e == cache.val[i + 1]
                  b == config.block_types[(i % Len(config.block_types)) + 1]
              IN  /\ e.kind = "MambaCache" <=> b = "recurrent"
                  /\ e.kind # "MambaCache" =>
                        /\ e.kind = "RotatingKVCache"
                        /\ e.max_size = config.attention_window_size
        /\ \A n \in 1 .. Len(handed) :
              handed[n].cache # None =>
                  (handed[n].cache = "MambaCache" <=> handed[n].block = "RecurrentBlock")

C1_Witness ==
    /\ cache.ok
    /\ config.num_hidden_layers = 3
    /\ config.block_types = <<"recurrent", "other">>
    /\ Len(handed) = 3
    /\ handed[2].cache = "RotatingKVCache"

\* The slots of a MambaCache that hold a value (0-based, as in the code).
WrittenSlots(entry) == {k \in 0 .. Len(entry.slots) - 1 : entry.slots[k + 1] # <<>>}

RecurrentEntries ==
    IF cache.ok THEN {n \in 1 .. Len(cache.val) : cache.val[n].kind = "MambaCache"}
    ELSE {}

\* The convolution and the recurrence over everything a block has seen.
PaddedHist == Zeros(ConvWidth - 1) \o hist
ConvOut(t) == SumWindow(PaddedHist, t, ConvWidth)
RECURSIVE HiddenState(_)
HiddenState(t) ==
    IF t = 0 THEN 0
    ELSE LET c == ConvOut(t)
             a == c % 2
         IN  a * HiddenState(t - 1) + c * (IF t = 1 THEN 1 ELSE 1 - a)

\* C6 as stated: a RecurrentBlock reads and writes exactly one slot of its
\* cache entry, the one that holds the last hidden state.
C6_SingleSlot ==
    \A n \in RecurrentEntries :
        hist # <<>> =>
            /\ Cardinality(WrittenSlots(cache.val[n])) = 1
            /\ \E k \in WrittenSlots(cache.val[n]) :
                  cache.val[n].slots[k + 1] = <<HiddenState(Len(hist))>>

\* C6 amended: a RecurrentBlock reads and writes exactly two slots of its
\* cache entry: slot 0 holds the last conv1d_temporal_width - 1 inputs of
\* the convolution, slot 1 the last hidden state of the recurrence.
C6_TwoSlots ==
    \A n \in RecurrentEntries :
        /\ Len(cache.val[n].slots) = 2
        /\ hist = <<>> => WrittenSlots(cache.val[n]) = {}
        /\ hist # <<>> =>
              /\ WrittenSlots(cache.val[n]) = {0, 1}
              /\ cache.val[n].slots[1] = <<LastN(PaddedHist, ConvWidth - 1)>>
              /\ cache.val[n].slots[2] = <<HiddenState(Len(hist))>>

C6_Witness ==
    /\ RecurrentEntries # {}
    /\ fwd.calls = 2
    /\ Len(hist) >= 3
    /\ HiddenState(Len(hist)) # HiddenState(Len(hist) - 1)

====
